---- MODULE Spec2Model ----
(***************************************************************************)
(* A model of the task store of script.js: the TaskManager class, the      *)
(* localStorage entry "tasks" it loads from and saves to, and the page     *)
(* load that constructs the module-scoped taskManager; and of the pages    *)
(* object of script.js: what each page renders of the store and what the  *)
(* handlers of a rendered task item do.                                    *)
(*                                                                         *)
(* JavaScript values are modelled as follows.                              *)
(*   - a string the user types is a sequence of one-character strings, so  *)
(*     that String.prototype.trim is computed and not assumed;             *)
(*   - date, priority, createdAt and completedAt hold strings; Null stands *)
(*     for null and Undefined for undefined (a property that is not set    *)
(*     reads as undefined);                                                *)
(*   - a task object is a record of its seven properties;                  *)
(*   - the JSON text of a task is a function from the property names that  *)
(*     JSON.stringify emits to their values.                               *)
(***************************************************************************)
EXTENDS Integers, Sequences, FiniteSets, TLC

VARIABLES
    storage,      \* the localStorage entry under key "tasks" (script.js:10,16)
    constructed,  \* TRUE once `new TaskManager()` has returned on this page
                  \* (script.js:127)
    tasks,        \* taskManager.tasks (script.js:4)
    nextId,       \* taskManager.nextId (script.js:5)
    last,         \* the last store call: operation, arguments, outcome and
                  \* value returned (history)
    before,       \* taskManager.tasks as it was when the last call started
                  \* (history)
    everCreated,  \* ids given to tasks by addTask since the first page load
                  \* (history)
    instance,     \* of the TaskManager constructed last: the greatest id it
                  \* loaded (0 if it loaded no task) and the ids it has
                  \* handed out, in order (history, kept under SpecIds)
    other,        \* the taskManager of a second browsing context on the
                  \* same localStorage (script.js:127, under SpecTabs)
    dom,          \* the document of the page that is open: its name, the
                  \* task items of its task list, whether the list shows
                  \* the empty-state placeholder, the message shown last,
                  \* the statistics shown and the pending setTimeout
                  \* navigation (script.js:149-449, under SpecView)
    event         \* the last event handled on the page: its kind, the id
                  \* of the task item it was fired on, the answer given to
                  \* window.confirm and whether the handler threw (history)

\* the variables the TaskManager methods act on, with their history
storeVars == <<storage, constructed, tasks, nextId, last, before, everCreated>>

vars == <<storeVars, instance, other, dom, event>>

----------------------------------------------------------------------------
(* Bounds of the model *)

\* addTask is not explored once the collection holds MaxTasks tasks
MaxTasks == 3
\* addTask is not explored once the id counter has passed MaxId
MaxId == 3
\* under SpecIds, addTask is not explored once MaxHeld tasks are held
MaxHeld == 2
\* under SpecTabs, addTask is not explored in a browsing context once it
\* holds MaxTabTasks tasks or its id counter has passed MaxTabId
MaxTabTasks == 1
MaxTabId == 1
\* under SpecView, the form is not submitted once MaxShown tasks are held
\* or the id counter has passed MaxShown
MaxShown == 2

----------------------------------------------------------------------------
(* JavaScript values *)

Null == "null"
Undefined == "undefined"

\* Characters String.prototype.trim removes (a sample of the white space set)
WhiteSpace == {" ", "\t", "\n"}

\* Sample calls of addTask(text, date, priority): an empty text, a text of
\* white space only, a text with the other arguments omitted, a text with
\* white space around it, and a text with white space inside together with
\* the empty value of an unfilled date input and an unknown priority
AddCalls ==
    { [text |-> <<>>, date |-> Undefined, priority |-> Undefined],
      [text |-> <<" ", "\t">>, date |-> "2024-01-01", priority |-> "high"],
      [text |-> <<"a">>, date |-> Undefined, priority |-> Undefined],
      [text |-> <<" ", "a", "\n">>, date |-> "2024-01-01", priority |-> "high"],
      [text |-> <<"a", " ", "b">>, date |-> "", priority |-> "urgent"] }

\* Values `new Date().toISOString()` may return
Times == {"2024-01-01T00:00:00.000Z"}

\* Ids that toggleTaskCompletion and deleteTask are called with
IdArgs == 0 .. MaxId

----------------------------------------------------------------------------
(* String.prototype.trim *)

RECURSIVE trimStart(_)
trimStart(s) ==
    IF s = <<>> THEN s
    ELSE IF Head(s) \in WhiteSpace THEN trimStart(Tail(s))
    ELSE s

RECURSIVE trimEnd(_)
trimEnd(s) ==
    IF s = <<>> THEN s
    ELSE IF s[Len(s)] \in WhiteSpace THEN trimEnd(SubSeq(s, 1, Len(s) - 1))
    ELSE s

\* mutant: the white space at the end is kept
trimLeading(s) == trimStart(s)

trim(s) == trimEnd(trimStart(s))

----------------------------------------------------------------------------
(* JSON.stringify and JSON.parse on an array of task objects *)

TaskKeys ==
    {"id", "text", "completed", "date", "priority", "createdAt", "completedAt"}

\* The properties whose value can be undefined in a task object
StringKeys == {"date", "priority", "createdAt", "completedAt"}

\* JSON.stringify leaves out a property whose value is undefined
stringifyTask(task) ==
    [k \in {key \in TaskKeys : ~(key \in StringKeys /\ task[key] = Undefined)}
        |-> task[k]]

\* A property the JSON text does not hold reads as undefined afterwards
parseTask(obj) ==
    [k \in TaskKeys |-> IF k \in DOMAIN obj THEN obj[k] ELSE Undefined]

JSONstringify(ts) == [i \in 1 .. Len(ts) |-> stringifyTask(ts[i])]

JSONparse(items) == [i \in 1 .. Len(items) |-> parseTask(items[i])]

----------------------------------------------------------------------------
(* localStorage *)

\* getItem('tasks') is null, or the string stored: "" (falsy), a text that
\* is no JSON, or the JSON text of an array
StorageNull == [kind |-> "null", items |-> <<>>]
StorageEmptyString == [kind |-> "empty", items |-> <<>>]
StorageMalformed == [kind |-> "malformed", items |-> <<>>]
StorageArray(items) == [kind |-> "array", items |-> items]

\* What the entry may hold when the first page is loaded
InitialStorage == {StorageNull, StorageEmptyString, StorageMalformed}

----------------------------------------------------------------------------
(* TaskManager *)

\* loadTasks: `tasks ? JSON.parse(tasks) : []`; JSON.parse throws a
\* SyntaxError on a text that is no JSON
loadTasksThrows(s) == s.kind = "malformed"

loadTasks(s) ==
    IF s.kind \in {"null", "empty"} THEN <<>> ELSE JSONparse(s.items)

\* mutant: the tasks found in storage under ids the collection does not
\* hold are written after it (a merge in place of an overwrite)
saveTasksMerge(ts) ==
    StorageArray(JSONstringify(
        ts \o SelectSeq(loadTasks(storage),
                        LAMBDA task : \A i \in 1 .. Len(ts) : ts[i].id # task.id)))

\* mutant: the completed tasks are not written
saveTasksPending(ts) ==
    StorageArray(JSONstringify(SelectSeq(ts, LAMBDA task : ~task.completed)))

\* saveTasks: the value written under "tasks"
saveTasks(ts) == StorageArray(JSONstringify(ts))

MathMax(S) == CHOOSE m \in S : \A x \in S : x <= m

\* mutant: the `+ 1` forgotten
getNextIdMax(ts) ==
    IF Len(ts) > 0 THEN MathMax({ts[i].id : i \in 1 .. Len(ts)}) ELSE 1

\* mutant: the number of tasks taken for the greatest id
getNextIdLength(ts) == Len(ts) + 1

getNextId(ts) ==
    IF Len(ts) > 0 THEN MathMax({ts[i].id : i \in 1 .. Len(ts)}) + 1 ELSE 1

\* mutant: `!text`, which takes a text of white space for a task text
emptyTextUntrimmed(text) == text = <<>>

\* `!text.trim()` of addTask: the trimmed text is the empty string
emptyText(text) == trim(text) = <<>>

\* Default parameter values apply when the argument is undefined
defaultDate(date) == IF date = Undefined THEN Null ELSE date
\* mutant: no default value for priority
defaultPriorityNone(priority) == priority

defaultPriority(priority) == IF priority = Undefined THEN "medium" ELSE priority

\* The object literal of addTask; completedAt is not set
newTask(id, text, date, priority, now) ==
    [ id |-> id,
      text |-> trim(text),
      completed |-> FALSE,
      date |-> defaultDate(date),
      priority |-> defaultPriority(priority),
      createdAt |-> now,
      completedAt |-> Undefined ]

getAllTasks(ts) == ts

getCompletedTasks(ts) == SelectSeq(ts, LAMBDA task : task.completed)

\* mutant: a misspelt property in the callback, `!task.complete`, which is
\* true of every task
getPendingTasksAll(ts) == ts

getPendingTasks(ts) == SelectSeq(ts, LAMBDA task : ~task.completed)

\* mutant: the collection emptied
keepNone(ts) == SubSeq(ts, 1, 0)

\* `this.tasks.filter(task => !task.completed)` of clearCompletedTasks
keepPending(ts) == SelectSeq(ts, LAMBDA task : ~task.completed)

\* Math.round of the quotient num / den (den > 0): the nearest integer,
\* a half rounded up
MathRound(num, den) == (2 * num + den) \div (2 * den)

\* mutant: Math.floor in place of Math.round
getStatsFloor(ts) ==
    LET total == Len(ts)
        completed == Len(SelectSeq(ts, LAMBDA task : task.completed))
    IN  [ total |-> total,
          completed |-> completed,
          pending |-> total - completed,
          completionRate |->
              IF total > 0 THEN (completed * 100) \div total ELSE 0 ]

getStats(ts) ==
    LET total == Len(ts)
        completed == Len(SelectSeq(ts, LAMBDA task : task.completed))
        pending == total - completed
    IN  [ total |-> total,
          completed |-> completed,
          pending |-> pending,
          completionRate |->
              IF total > 0 THEN MathRound(completed * 100, total) ELSE 0 ]

\* `classes[priority] || 'priority-medium'`
getPriorityClass(priority) ==
    CASE priority = "high" -> "priority-high"
      [] priority = "medium" -> "priority-medium"
      [] priority = "low" -> "priority-low"
      [] OTHER -> "priority-medium"

\* Array.prototype.findIndex with `task => task.id === id`: the 0-based
\* index of the first task with that id, -1 if there is none
findIndex(ts, id) ==
    IF \E i \in 1 .. Len(ts) : ts[i].id = id
    THEN (CHOOSE i \in 1 .. Len(ts) :
            /\ ts[i].id = id
            /\ \A j \in 1 .. i - 1 : ts[j].id # id) - 1
    ELSE -1

\* mutant: the id taken for the position of the task in the array
findByPosition(ts, id) ==
    IF id >= 1 /\ id <= Len(ts) THEN id - 1 ELSE -1

\* Array.prototype.find with the same callback, as the index of the task
\* it returns; -1 stands for undefined
find(ts, id) == findIndex(ts, id)

\* `if (task)` of toggleTaskCompletion
taskFound(index) == index # -1

\* mutant: `if (index)`, which takes -1 for found and 0 for not found
indexTruthy(index) == index # 0

\* `if (index !== -1)` of deleteTask
indexFound(index) == index # -1

\* mutant: `task.completed = true` in place of the negation
toggledSetOnly(task, now) ==
    [task EXCEPT !.completed = TRUE, !.completedAt = now]

\* mutant: completedAt is set on every toggle, never cleared
toggledKeepStamp(task, now) ==
    [task EXCEPT !.completed = ~task.completed, !.completedAt = now]

\* The assignments of toggleTaskCompletion to the task found
toggled(task, now) ==
    [task EXCEPT !.completed = ~task.completed,
                 !.completedAt = IF ~task.completed THEN now ELSE Null]

\* Array.prototype.splice(start, 1): a negative start counts from the end
\* of the array; spliceStart is the 0-based index it begins at
spliceStart(ts, start) ==
    IF start < 0
    THEN (IF Len(ts) + start < 0 THEN 0 ELSE Len(ts) + start)
    ELSE (IF start > Len(ts) THEN Len(ts) ELSE start)

\* the elements splice(start, 1) removes (and returns)
spliceRemoved(ts, start) ==
    IF spliceStart(ts, start) < Len(ts)
    THEN <<ts[spliceStart(ts, start) + 1]>>
    ELSE <<>>

\* mutant: splice(start), which removes every element from start on
spliceLeftToEnd(ts, start) == SubSeq(ts, 1, spliceStart(ts, start))

\* the array splice(start, 1) leaves
spliceLeft(ts, start) ==
    SubSeq(ts, 1, spliceStart(ts, start))
        \o SubSeq(ts, spliceStart(ts, start) + 2, Len(ts))

----------------------------------------------------------------------------
(* utils and pages: what a page shows *)

\* The pages the DOMContentLoaded listener initializes.  The documents are
\* taken to hold the elements their initialization looks up: the statistics
\* elements on index.html, the form on add-task.html, #stats-container and
\* the .task-list on tasks.html, the .task-list and #clear-completed on
\* completed.html.
Pages == {"index.html", "add-task.html", "tasks.html", "completed.html"}

\* no message has been shown
NoMessage == [text |-> "", type |-> "", count |-> 0]

\* utils.showMessage(message, type): the message element added to the body
\* (its removal after three seconds is not modelled)
showMessage(text, type) == [text |-> text, type |-> type, count |-> 0]

\* The task item createTaskElement builds: the task's id, whether the item
\* has the class `completed`, the inline text-decoration of the task text
\* (not set at creation) and the text of the toggle-complete button.  The
\* checkbox, the date, the priority badge and the button's class are left
\* out.
createTaskElement(task) ==
    [ id |-> task.id,
      completed |-> task.completed,
      textDecoration |-> "",
      completeBtn |-> IF task.completed THEN "Undo Complete"
                      ELSE "Mark Complete" ]

\* A document in which nothing has been rendered
blank(page) ==
    [ page |-> page,
      items |-> <<>>,
      emptyState |-> FALSE,
      message |-> NoMessage,
      stats |-> <<>>,
      timer |-> "none" ]

\* pages.renderStats: the numbers getStats returns are shown
renderStats(d, ts) == [d EXCEPT !.stats = <<getStats(ts)>>]

\* pages.renderTasks: the empty-state placeholder for an empty list, else
\* one task item per task
renderTasks(d, ts) ==
    IF Len(ts) = 0
    THEN [d EXCEPT !.items = <<>>, !.emptyState = TRUE]
    ELSE [d EXCEPT !.items = [i \in 1 .. Len(ts) |-> createTaskElement(ts[i])],
                   !.emptyState = FALSE]

initHome(ts) == [blank("index.html") EXCEPT !.stats = <<getStats(ts)>>]

initAddTask == blank("add-task.html")

initTasks(ts) ==
    renderTasks(renderStats(blank("tasks.html"), ts), getAllTasks(ts))

initCompleted(ts) == renderTasks(blank("completed.html"), getCompletedTasks(ts))

\* The document once the script has run on page: when the constructor threw
\* at line 127 the script stopped there and no listener was registered
DOMContentLoaded(page, c, ts) ==
    IF ~c THEN blank(page)
    ELSE CASE page = "index.html" -> initHome(ts)
           [] page = "add-task.html" -> initAddTask
           [] page = "tasks.html" -> initTasks(ts)
           [] page = "completed.html" -> initCompleted(ts)

\* `task.completed` as a handler of the item of task id reads it: the task
\* object the item was built from is the one the store holds, so the value
\* is the store's; a task that clearCompletedTasks has removed was completed
\* and stays so
taskCompleted(ts, id) ==
    IF taskFound(find(ts, id)) THEN ts[find(ts, id) + 1].completed ELSE TRUE

\* taskItem.remove()
remove(items, k) == SubSeq(items, 1, k - 1) \o SubSeq(items, k + 1, Len(items))

\* The record of the last event
Event(kind, id, answer, threw) ==
    [kind |-> kind, id |-> id, answer |-> answer, threw |-> threw]

NoEvent == Event("none", 0, FALSE, FALSE)

\* What the form hands to addTask: the values of the three controls, which
\* are strings
FormCalls ==
    {call \in AddCalls : call.date # Undefined /\ call.priority # Undefined}

----------------------------------------------------------------------------
(* The record of the last call *)

NoArgs == [text |-> <<>>, date |-> Undefined, priority |-> Undefined, id |-> 0]

\* outcome: "returned" (ret holds the task or tasks returned), "null" (the
\* not-found result) or "threw" (an exception left the call)
Call(op, args, outcome, ret) ==
    [op |-> op, args |-> args, outcome |-> outcome, ret |-> ret]

----------------------------------------------------------------------------
(* Operations *)

\* The instance record of a TaskManager that loaded the tasks ts
Loaded(ts) ==
    [ max |-> IF Len(ts) > 0
              THEN MathMax({ts[i].id : i \in 1 .. Len(ts)}) ELSE 0,
      handed |-> <<>> ]

\* The taskManager of a browsing context
Manager(c, ts, n) == [constructed |-> c, tasks |-> ts, nextId |-> n]

\* `const taskManager = new TaskManager()`: the constructor on a page load
Construct(s) ==
    IF loadTasksThrows(s)
    THEN /\ constructed' = FALSE
         /\ tasks' = <<>>
         /\ nextId' = 0
         /\ last' = Call("constructor", NoArgs, "threw", <<>>)
    ELSE /\ constructed' = TRUE
         /\ tasks' = loadTasks(s)
         /\ nextId' = getNextId(loadTasks(s))
         /\ last' = Call("constructor", NoArgs, "returned", <<>>)

Init ==
    \E s \in InitialStorage :
        /\ storage = s
        /\ constructed = ~loadTasksThrows(s)
        /\ tasks = IF loadTasksThrows(s) THEN <<>> ELSE loadTasks(s)
        /\ nextId = IF loadTasksThrows(s) THEN 0 ELSE getNextId(loadTasks(s))
        /\ last = Call("constructor", NoArgs,
                       IF loadTasksThrows(s) THEN "threw" ELSE "returned", <<>>)
        /\ before = <<>>
        /\ everCreated = {}
        /\ instance = Loaded(<<>>)
        /\ other = Manager(FALSE, <<>>, 0)
        /\ dom = blank("index.html")
        /\ event = NoEvent

\* A page of the site is loaded (navigation or reload): the script runs
\* again and constructs a new TaskManager from the stored value
PageLoad ==
    /\ Construct(storage)
    /\ before' = <<>>
    /\ UNCHANGED <<storage, everCreated>>

addTask ==
    /\ constructed
    /\ \E call \in AddCalls :
         LET text == call.text
             date == call.date
             priority == call.priority
             args == [text |-> text, date |-> date, priority |-> priority,
                      id |-> 0]
         IN  \/ /\ emptyText(text)
                /\ last' = Call("addTask", args, "threw", <<>>)
                /\ before' = tasks
                /\ UNCHANGED <<storage, constructed, tasks, nextId, everCreated>>
             \/ /\ ~emptyText(text)
                /\ Len(tasks) < MaxTasks
                /\ nextId <= MaxId
                /\ \E now \in Times :
                     LET task == newTask(nextId, text, date, priority, now)
                     IN  /\ nextId' = nextId + 1
                         /\ tasks' = Append(tasks, task)
                         /\ storage' = saveTasks(Append(tasks, task))
                         /\ last' = Call("addTask", args, "returned", <<task>>)
                         /\ before' = tasks
                         /\ everCreated' = everCreated \cup {task.id}
                         /\ UNCHANGED constructed

toggleTaskCompletion ==
    /\ constructed
    /\ \E id \in IdArgs :
         LET args == [NoArgs EXCEPT !.id = id]
             index == find(tasks, id)
         IN  \/ /\ taskFound(index)
                /\ \E now \in Times :
                     LET ts == [tasks EXCEPT
                                  ![index + 1] = toggled(tasks[index + 1], now)]
                     IN  /\ tasks' = ts
                         /\ storage' = saveTasks(ts)
                         /\ last' = Call("toggleTaskCompletion", args,
                                         "returned", <<ts[index + 1]>>)
                /\ before' = tasks
                /\ UNCHANGED <<constructed, nextId, everCreated>>
             \/ /\ ~taskFound(index)
                /\ last' = Call("toggleTaskCompletion", args, "null", <<>>)
                /\ before' = tasks
                /\ UNCHANGED <<storage, constructed, tasks, nextId, everCreated>>

deleteTask ==
    /\ constructed
    /\ \E id \in IdArgs :
         LET args == [NoArgs EXCEPT !.id = id]
             index == findIndex(tasks, id)
         IN  \/ /\ indexFound(index)
                /\ tasks' = spliceLeft(tasks, index)
                /\ storage' = saveTasks(spliceLeft(tasks, index))
                \* `splice(index, 1)[0]` of an empty result is undefined
                /\ last' = Call("deleteTask", args, "returned",
                                spliceRemoved(tasks, index))
                /\ before' = tasks
                /\ UNCHANGED <<constructed, nextId, everCreated>>
             \/ /\ ~indexFound(index)
                /\ last' = Call("deleteTask", args, "null", <<>>)
                /\ before' = tasks
                /\ UNCHANGED <<storage, constructed, tasks, nextId, everCreated>>

clearCompletedTasks ==
    /\ constructed
    /\ tasks' = keepPending(tasks)
    /\ storage' = saveTasks(keepPending(tasks))
    /\ last' = Call("clearCompletedTasks", NoArgs, "returned",
                    getCompletedTasks(tasks))
    /\ before' = tasks
    /\ UNCHANGED <<constructed, nextId, everCreated>>

Next ==
    \/ PageLoad /\ UNCHANGED <<instance, other, dom, event>>
    \/ addTask /\ UNCHANGED <<instance, other, dom, event>>
    \/ toggleTaskCompletion /\ UNCHANGED <<instance, other, dom, event>>
    \/ deleteTask /\ UNCHANGED <<instance, other, dom, event>>
    \/ clearCompletedTasks /\ UNCHANGED <<instance, other, dom, event>>

Spec == Init /\ [][Next]_vars

----------------------------------------------------------------------------
(* Two browsing contexts on one localStorage *)

\* The taskManager a browsing context constructs from the stored value s
Constructed(s) ==
    IF loadTasksThrows(s)
    THEN Manager(FALSE, <<>>, 0)
    ELSE Manager(TRUE, loadTasks(s), getNextId(loadTasks(s)))

\* Two pages are open on the same stored value
InitTabs ==
    \E s \in InitialStorage :
        /\ storage = s
        /\ constructed = Constructed(s).constructed
        /\ tasks = Constructed(s).tasks
        /\ nextId = Constructed(s).nextId
        /\ last = Call("constructor", NoArgs,
                       IF loadTasksThrows(s) THEN "threw" ELSE "returned", <<>>)
        /\ before = <<>>
        /\ everCreated = {}
        /\ instance = Loaded(<<>>)
        /\ other = Constructed(s)
        /\ dom = blank("index.html")
        /\ event = NoEvent

\* The next event is handled in the other browsing context: tasks, nextId
\* and constructed are from now on those of its taskManager
SwitchTab ==
    /\ other' = Manager(constructed, tasks, nextId)
    /\ constructed' = other.constructed
    /\ tasks' = other.tasks
    /\ nextId' = other.nextId
    /\ last' = Call("switchTab", NoArgs, "returned", <<>>)
    /\ before' = <<>>
    /\ UNCHANGED <<storage, everCreated, instance, dom, event>>

\* the submissions tried when two contexts are open: the two of AddCalls
\* that are accepted with different texts and without a due date
TabCalls ==
    {call \in AddCalls : ~emptyText(call.text) /\ call.date # "2024-01-01"}

TabLimit ==
    /\ Len(tasks') <= MaxTabTasks
    /\ nextId' <= MaxTabId + 1
    /\ \E call \in TabCalls :
         /\ last'.args.text = call.text
         /\ last'.args.date = call.date
         /\ last'.args.priority = call.priority

NextTabs ==
    \/ PageLoad /\ UNCHANGED <<instance, other, dom, event>>
    \/ addTask /\ TabLimit /\ UNCHANGED <<instance, other, dom, event>>
    \/ toggleTaskCompletion /\ UNCHANGED <<instance, other, dom, event>>
    \/ deleteTask /\ UNCHANGED <<instance, other, dom, event>>
    \/ clearCompletedTasks /\ UNCHANGED <<instance, other, dom, event>>
    \/ SwitchTab

SpecTabs == InitTabs /\ [][NextTabs]_vars

----------------------------------------------------------------------------
(* The pages and their handlers *)

\* A page is open
InitView ==
    \E s \in InitialStorage, page \in Pages :
        /\ storage = s
        /\ constructed = Constructed(s).constructed
        /\ tasks = Constructed(s).tasks
        /\ nextId = Constructed(s).nextId
        /\ last = Call("constructor", NoArgs,
                       IF loadTasksThrows(s) THEN "threw" ELSE "returned", <<>>)
        /\ before = <<>>
        /\ everCreated = {}
        /\ instance = Loaded(<<>>)
        /\ other = Manager(FALSE, <<>>, 0)
        /\ dom = DOMContentLoaded(page, Constructed(s).constructed,
                                  Constructed(s).tasks)
        /\ event = Event("load", 0, FALSE, FALSE)

\* The user opens or reloads a page: the script runs and initializes it
Navigate ==
    /\ PageLoad
    /\ \E page \in Pages : dom' = DOMContentLoaded(page, constructed', tasks')
    /\ event' = Event("load", 0, FALSE, FALSE)
    /\ UNCHANGED <<instance, other>>

\* The setTimeout callback of the form or of the clear button runs: the
\* tasks page is opened, or the page is reloaded
Timeout ==
    /\ dom.timer # "none"
    /\ PageLoad
    /\ dom' = DOMContentLoaded(IF dom.timer = "reload" THEN dom.page
                               ELSE dom.timer,
                               constructed', tasks')
    /\ event' = Event("timeout", 0, FALSE, FALSE)
    /\ UNCHANGED <<instance, other>>

FormLimit ==
    /\ Len(tasks') <= MaxShown
    /\ nextId' <= MaxShown + 1
    /\ \E call \in FormCalls :
         /\ last'.args.text = call.text
         /\ last'.args.date = call.date
         /\ last'.args.priority = call.priority

\* The submit listener of the form of add-task.html
submit ==
    /\ dom.page = "add-task.html"
    /\ addTask
    /\ FormLimit
    /\ dom' = IF last'.outcome = "returned"
              THEN [dom EXCEPT
                      !.message = showMessage("Task added successfully!",
                                              "success"),
                      !.timer = "tasks.html"]
              ELSE [dom EXCEPT
                      !.message = showMessage("Task text cannot be empty",
                                              "error")]
    /\ event' = Event("submit", 0, FALSE, FALSE)
    /\ UNCHANGED <<instance, other>>

\* The change listener of the checkbox of a task item.  After the call of
\* toggleTaskCompletion, `task.completed` is the new value of the flag.
checkboxChange ==
    \E k \in 1 .. Len(dom.items) :
        LET id == dom.items[k].id
        IN  /\ toggleTaskCompletion
            /\ last'.args.id = id
            /\ LET completed == taskCompleted(tasks', id)
                   d == [dom EXCEPT
                           !.items[k].completed = ~@,
                           !.items[k].textDecoration =
                               IF completed THEN "none" ELSE "line-through",
                           !.message =
                               showMessage(IF completed
                                           THEN "Task marked as pending"
                                           ELSE "Task completed!", "success")]
               IN  dom' = IF dom.page = "tasks.html"
                          THEN renderStats(d, tasks') ELSE d
            /\ event' = Event("change", id, FALSE, FALSE)
            /\ UNCHANGED <<instance, other>>

\* The click listener of the toggle-complete button of a task item.  When
\* the store no longer holds the task, `updatedTask` is undefined and
\* reading `updatedTask.completed` throws a TypeError.
completeBtnClick ==
    \E k \in 1 .. Len(dom.items) :
        LET id == dom.items[k].id
        IN  /\ toggleTaskCompletion
            /\ last'.args.id = id
            /\ LET index == find(getAllTasks(tasks'), id)
                   updatedTask == tasks'[index + 1]
                   d == [dom EXCEPT
                           !.items[k].completed = updatedTask.completed,
                           !.items[k].textDecoration =
                               IF updatedTask.completed THEN "line-through"
                               ELSE "none",
                           !.items[k].completeBtn =
                               IF updatedTask.completed THEN "Undo Complete"
                               ELSE "Mark Complete",
                           !.message =
                               showMessage(IF updatedTask.completed
                                           THEN "Task marked as complete!"
                                           ELSE "Task marked as pending",
                                           "success")]
               IN  IF taskFound(index)
                   THEN /\ dom' = IF dom.page = "tasks.html"
                                  THEN renderStats(d, tasks') ELSE d
                        /\ event' = Event("click-complete", id, FALSE, FALSE)
                   ELSE /\ dom' = dom
                        /\ event' = Event("click-complete", id, FALSE, TRUE)
            /\ UNCHANGED <<instance, other>>

\* The click listener of the delete button of a task item.  `taskList` at
\* line 441 is a name that neither the listener, createTaskElement nor the
\* script declares (the lists are looked up as 'task-list',
\* 'completed-task-list' and '.task-list'), so evaluating it throws a
\* ReferenceError and lines 442-444 are not reached.
deleteBtnClick ==
    \E k \in 1 .. Len(dom.items), answer \in BOOLEAN :
        LET id == dom.items[k].id
        IN  /\ \/ /\ ~answer
                  /\ UNCHANGED <<storeVars, dom>>
                  /\ event' = Event("click-delete", id, FALSE, FALSE)
               \/ /\ answer
                  /\ deleteTask
                  /\ last'.args.id = id
                  /\ LET d == [dom EXCEPT
                                 !.items = remove(@, k),
                                 !.message =
                                     showMessage("Task deleted successfully!",
                                                 "success")]
                     IN  dom' = IF dom.page = "tasks.html"
                                THEN renderStats(d, tasks') ELSE d
                  /\ event' = Event("click-delete", id, TRUE, TRUE)
            /\ UNCHANGED <<instance, other>>

\* The click listener of the clear button of completed.html
clearBtnClick ==
    /\ dom.page = "completed.html"
    /\ constructed
    /\ \E answer \in BOOLEAN :
         \/ /\ ~answer
            /\ UNCHANGED <<storeVars, dom>>
            /\ event' = Event("click-clear", 0, FALSE, FALSE)
         \/ /\ answer
            /\ clearCompletedTasks
            /\ dom' = [dom EXCEPT
                         !.message = [text |-> "Cleared completed tasks",
                                      type |-> "success",
                                      count |-> Len(last'.ret)],
                         !.timer = "reload"]
            /\ event' = Event("click-clear", 0, TRUE, FALSE)
    /\ UNCHANGED <<instance, other>>

NextView ==
    \/ Navigate
    \/ Timeout
    \/ submit
    \/ checkboxChange
    \/ completeBtnClick
    \/ deleteBtnClick
    \/ clearBtnClick

SpecView == InitView /\ [][NextView]_vars

----------------------------------------------------------------------------
(* The ids one TaskManager hands out *)

\* The history of the step taken: a constructor starts a new record, an
\* addTask that returned adds the id of its task
Track ==
    instance' =
        IF last'.op = "constructor" THEN Loaded(tasks')
        ELSE IF last'.op = "addTask" /\ last'.outcome = "returned"
        THEN [instance EXCEPT !.handed = Append(@, last'.ret[1].id)]
        ELSE instance

Held == Len(tasks') <= MaxHeld

NextIds ==
    \/ PageLoad /\ Track /\ UNCHANGED <<other, dom, event>>
    \/ addTask /\ Held /\ Track /\ UNCHANGED <<other, dom, event>>
    \/ toggleTaskCompletion /\ Track /\ UNCHANGED <<other, dom, event>>
    \/ deleteTask /\ Track /\ UNCHANGED <<other, dom, event>>
    \/ clearCompletedTasks /\ Track /\ UNCHANGED <<other, dom, event>>

SpecIds == Init /\ [][NextIds]_vars

----------------------------------------------------------------------------
(* Properties of the task store *)

Mutators ==
    {"addTask", "toggleTaskCompletion", "deleteTask", "clearCompletedTasks"}

IdsOf(ts) == {ts[i].id : i \in 1 .. Len(ts)}

HasId(ts, id) == \E i \in 1 .. Len(ts) : ts[i].id = id

\* a timestamp: neither null nor undefined
IsTimestamp(v) == v # Null /\ v # Undefined

\* C1: in every state reached by addTask, toggleTaskCompletion, deleteTask
\* and clearCompletedTasks (and page loads from what they stored), no two
\* tasks of the collection have the same id.
C1_UniqueIds ==
    \A i, j \in 1 .. Len(tasks) : tasks[i].id = tasks[j].id => i = j

\* a task has been deleted and another added after it, two tasks are held
C1_Witness ==
    /\ last.op = "addTask"
    /\ last.outcome = "returned"
    /\ Len(tasks) >= 2
    /\ Cardinality(everCreated) > Len(tasks)

\* C2: the id given to a newly added task differs from the id of every task
\* created before it, deleted ones included, across page loads.
C2_IdNeverReused ==
    [][(last'.op = "addTask" /\ last'.outcome = "returned")
          => last'.ret[1].id \notin everCreated]_vars

\* C3: when a mutating operation has returned, the stored value is the
\* serialization of the whole collection: it is the JSON text of an array
\* of as many tasks, and a store constructed from it holds the same
\* sequence of task records.
C3_StoredIsCollection ==
    (last.op \in Mutators /\ last.outcome = "returned")
        => /\ storage.kind = "array"
           /\ Len(storage.items) = Len(tasks)
           /\ ~loadTasksThrows(storage)
           /\ loadTasks(storage) = tasks

\* a toggle has returned while the collection holds a completed task, a
\* task whose completedAt is null and a task whose completedAt is not set
C3_Witness ==
    /\ last.op = "toggleTaskCompletion"
    /\ last.outcome = "returned"
    /\ \E i, j, k \in 1 .. Len(tasks) :
         /\ tasks[i].completed
         /\ tasks[j].completedAt = Null
         /\ tasks[k].completedAt = Undefined

\* the text holds a character that is not white space
HasNonSpace(s) == \E k \in 1 .. Len(s) : s[k] \notin WhiteSpace

\* r is s without the white space at its two ends
IsTrimmed(r, s) ==
    \E i, j \in 0 .. Len(s) :
        /\ i + j <= Len(s)
        /\ r = SubSeq(s, i + 1, Len(s) - j)
        /\ \A k \in 1 .. i : s[k] \in WhiteSpace
        /\ \A k \in Len(s) - j + 1 .. Len(s) : s[k] \in WhiteSpace
        /\ r # <<>> => (r[1] \notin WhiteSpace /\ r[Len(r)] \notin WhiteSpace)

\* C4: addTask succeeds if and only if the text is non-empty after
\* trimming; on success one task is appended at the end of the collection,
\* with the trimmed text and completed = false, and it is the task
\* returned; otherwise an error is raised (and the collection is as it was).
C4_AddTask ==
    [][last'.op = "addTask" =>
         /\ (last'.outcome = "returned") <=> HasNonSpace(last'.args.text)
         /\ last'.outcome = "returned" =>
              /\ Len(last'.ret) = 1
              /\ tasks' = Append(tasks, last'.ret[1])
              /\ IsTrimmed(last'.ret[1].text, last'.args.text)
              /\ last'.ret[1].completed = FALSE
         /\ last'.outcome # "returned" =>
              /\ last'.outcome = "threw"
              /\ tasks' = tasks]_vars

\* addTask has returned a task whose text is shorter than the text given
C4_Witness ==
    /\ last.op = "addTask"
    /\ last.outcome = "returned"
    /\ Len(last.ret[1].text) < Len(last.args.text)
    /\ Len(before) >= 1

\* C5: construction of the store completes without raising, with an empty
\* collection, when the stored value is absent or is not parseable.
C5_InitNeverFails ==
    (last.op = "constructor" /\ storage.kind \in {"null", "empty", "malformed"})
        => /\ last.outcome = "returned"
           /\ constructed
           /\ tasks = <<>>

\* C6: toggleTaskCompletion(id) and deleteTask(id) with an id no task has
\* return null without raising and leave the collection and the stored
\* value unchanged.
C6_UnknownId ==
    [][(last'.op \in {"toggleTaskCompletion", "deleteTask"}
          /\ ~HasId(tasks, last'.args.id))
         => /\ last'.outcome = "null"
            /\ tasks' = tasks
            /\ storage' = storage]_vars

\* deleteTask has returned null for the id of a task deleted earlier, the
\* collection holding tasks
C6_Witness ==
    /\ last.op = "deleteTask"
    /\ last.outcome = "null"
    /\ last.args.id \in everCreated
    /\ Len(tasks) >= 2

\* the collection ts with the task of that id pending and completedAt null
Restored(ts, id) ==
    [i \in 1 .. Len(ts) |->
        IF ts[i].id = id
        THEN [ts[i] EXCEPT !.completed = FALSE, !.completedAt = Null]
        ELSE ts[i]]

\* the last call was toggleTaskCompletion(id) on a task that was pending
ToggledPending(id) ==
    /\ last.op = "toggleTaskCompletion"
    /\ last.args.id = id
    /\ \E i \in 1 .. Len(before) : before[i].id = id /\ ~before[i].completed

\* C7: toggleTaskCompletion(id) on a pending task makes completed true and
\* completedAt non-null; a second toggleTaskCompletion(id) right after it
\* restores completed = false and completedAt = null and leaves the rest of
\* the collection as it was before the first call.
C7_ToggleTwice ==
    [][\A id \in IdArgs :
         ToggledPending(id) =>
           /\ \A i \in 1 .. Len(tasks) :
                tasks[i].id = id =>
                    tasks[i].completed /\ IsTimestamp(tasks[i].completedAt)
           /\ (last'.op = "toggleTaskCompletion" /\ last'.args.id = id)
                => tasks' = Restored(before, id)]_vars

\* the second of two toggles has returned: the task was completed when it
\* started, and other tasks are held
C7_Witness ==
    /\ last.op = "toggleTaskCompletion"
    /\ last.outcome = "returned"
    /\ Len(tasks) >= 2
    /\ \E i \in 1 .. Len(before) :
         /\ before[i].id = last.args.id
         /\ before[i].completed
         /\ ~tasks[i].completed
         /\ tasks[i].completedAt = Null

\* C8: each task has completed = true exactly when its completedAt holds a
\* timestamp (a pending task has completedAt null or not set).
C8_CompletedIffStamped ==
    \A i \in 1 .. Len(tasks) :
        tasks[i].completed <=> IsTimestamp(tasks[i].completedAt)

\* a completed task, a task completed and undone, and a task never
\* completed are held
C8_Witness ==
    \E i, j, k \in 1 .. Len(tasks) :
        /\ tasks[i].completed
        /\ ~tasks[j].completed /\ tasks[j].completedAt = Null
        /\ ~tasks[k].completed /\ tasks[k].completedAt = Undefined

\* C9: completed and completedAt of a task change only through
\* toggleTaskCompletion with its id; every other call leaves them unchanged
\* on the tasks that remain, and no call changes the id, text, date,
\* priority or createdAt of a task.
C9_Frame ==
    [][\A i \in 1 .. Len(tasks), j \in 1 .. Len(tasks') :
         tasks[i].id = tasks'[j].id =>
           /\ tasks'[j].text = tasks[i].text
           /\ tasks'[j].date = tasks[i].date
           /\ tasks'[j].priority = tasks[i].priority
           /\ tasks'[j].createdAt = tasks[i].createdAt
           /\ ~(last'.op = "toggleTaskCompletion"
                  /\ last'.args.id = tasks[i].id)
                => /\ tasks'[j].completed = tasks[i].completed
                   /\ tasks'[j].completedAt = tasks[i].completedAt]_vars

\* a task has been toggled while a completed task with another id and a
\* third task were held
C9_Witness ==
    /\ last.op = "toggleTaskCompletion"
    /\ last.outcome = "returned"
    /\ Len(tasks) >= 3
    /\ \E i \in 1 .. Len(tasks) :
         tasks[i].id # last.args.id /\ tasks[i].completed

\* the tasks of ts whose id is not the one given, in the order of ts
Without(ts, id) == SelectSeq(ts, LAMBDA task : task.id # id)

\* C10: deleteTask(id) on an id of the collection removes the task with
\* that id and returns it; the other tasks stay, unchanged and in the same
\* order, and the collection is one task shorter.
C10_DeleteTask ==
    [][(last'.op = "deleteTask" /\ HasId(tasks, last'.args.id))
         => /\ last'.outcome = "returned"
            /\ Len(last'.ret) = 1
            /\ last'.ret[1].id = last'.args.id
            /\ \E i \in 1 .. Len(tasks) : tasks[i] = last'.ret[1]
            /\ Len(tasks') = Len(tasks) - 1
            /\ tasks' = Without(tasks, last'.args.id)]_vars

\* the first of three tasks has been deleted
C10_Witness ==
    /\ last.op = "deleteTask"
    /\ last.outcome = "returned"
    /\ Len(before) >= 3
    /\ before[1].id = last.args.id
    /\ Len(tasks) = Len(before) - 1

\* C11: clearCompletedTasks returns the tasks that were completed before the
\* call, in collection order; afterwards getCompletedTasks() is empty and
\* getPendingTasks() is the sequence it was before the call.
C11_ClearCompleted ==
    [][last'.op = "clearCompletedTasks" =>
         /\ last'.outcome = "returned"
         /\ last'.ret = SelectSeq(tasks, LAMBDA task : task.completed)
         /\ getCompletedTasks(tasks') = <<>>
         /\ getPendingTasks(tasks') = getPendingTasks(tasks)]_vars

\* clearCompletedTasks has removed a completed task that stood between two
\* pending ones
C11_Witness ==
    /\ last.op = "clearCompletedTasks"
    /\ Len(before) = 3
    /\ ~before[1].completed /\ before[2].completed /\ ~before[3].completed
    /\ Len(last.ret) = 1
    /\ Len(tasks) = 2

\* the i-th smallest element of a set of numbers
Nth(S, i) == CHOOSE x \in S : Cardinality({y \in S : y < x}) = i - 1

\* a is b restricted to some of its positions, in the order of b
IsSubsequence(a, b) ==
    \E S \in SUBSET (1 .. Len(b)) :
        /\ Cardinality(S) = Len(a)
        /\ \A i \in 1 .. Len(a) : a[i] = b[Nth(S, i)]

\* the position in ts of the task with that id (ids are distinct)
PositionOf(ts, id) == CHOOSE i \in 1 .. Len(ts) : ts[i].id = id

\* the completed and the pending tasks are disjoint subsequences of
\* getAllTasks() that together hold every task
C12_Partition ==
    LET all == getAllTasks(tasks)
        done == getCompletedTasks(tasks)
        open == getPendingTasks(tasks)
    IN  /\ all = tasks
        /\ IsSubsequence(done, all)
        /\ IsSubsequence(open, all)
        /\ \A i \in 1 .. Len(done), j \in 1 .. Len(open) : done[i] # open[j]
        /\ Len(done) + Len(open) = Len(all)
        /\ \A k \in 1 .. Len(all) :
             \/ \E i \in 1 .. Len(done) : done[i] = all[k]
             \/ \E j \in 1 .. Len(open) : open[j] = all[k]

\* a step keeps the tasks that survive it in the order they had, and puts
\* a task it adds after all of them
C12_StepKeepsOrder ==
    \A i, j \in 1 .. Len(tasks') :
        i < j =>
          /\ HasId(tasks, tasks'[i].id)
          /\ HasId(tasks, tasks'[j].id) =>
               PositionOf(tasks, tasks'[i].id) < PositionOf(tasks, tasks'[j].id)

\* C12: getAllTasks() lists the surviving tasks in the order they were
\* added, and getCompletedTasks() and getPendingTasks() are disjoint
\* subsequences of it that together contain every task, each in that order.
C12_QueriesInOrder == []C12_Partition /\ [][C12_StepKeepsOrder]_vars

\* a toggle has left a completed task between two pending ones
C12_Witness ==
    /\ Len(tasks) = 3
    /\ ~tasks[1].completed /\ tasks[2].completed /\ ~tasks[3].completed
    /\ last.op = "toggleTaskCompletion"

\* C13: getStats() returns total = number of tasks, completed = number of
\* completed tasks, pending = total - completed, and completionRate =
\* completed / total * 100 rounded to the nearest integer, an integer of
\* 0 .. 100 that is 0 when total is 0.
C13_Stats ==
    LET stats == getStats(tasks)
        n == Len(tasks)
        c == Cardinality({i \in 1 .. Len(tasks) : tasks[i].completed})
        r == stats.completionRate
        d == 100 * c - r * n
    IN  /\ stats.total = n
        /\ stats.completed = c
        /\ stats.pending = n - c
        /\ r \in 0 .. 100
        /\ n = 0 => r = 0
        /\ n > 0 => (2 * d <= n /\ 2 * (0 - d) <= n)

\* two of three tasks are completed: the rate is 67, rounded up from 66.67
C13_Witness ==
    /\ Len(tasks) = 3
    /\ getStats(tasks).completed = 2
    /\ getStats(tasks).completionRate = 67

KnownPriorities == {"high", "medium", "low"}

C16_RejectedAdd ==
    [][(last'.op = "addTask" /\ ~HasNonSpace(last'.args.text))
         => /\ last'.outcome = "threw"
            /\ tasks' = tasks
            /\ storage' = storage
            /\ nextId' = nextId]_vars

\* a text of white space has been rejected while tasks were held
C16_Witness ==
    /\ last.op = "addTask"
    /\ last.outcome = "threw"
    /\ last.args.text # <<>>
    /\ Len(tasks) >= 1

\* the counter of a TaskManager just constructed: 1 for an empty collection,
\* else above every id loaded and next to one of them
C15_CounterAtLoad ==
    (last.op = "constructor" /\ last.outcome = "returned")
        => /\ tasks = <<>> => nextId = 1
           /\ tasks # <<>> =>
                /\ \A i \in 1 .. Len(tasks) : tasks[i].id < nextId
                /\ \E i \in 1 .. Len(tasks) : tasks[i].id = nextId - 1

\* the ids one instance has handed out are strictly increasing, and are
\* 1, 2, 3, ... when it loaded no task
C15_HandedIncreasing ==
    /\ \A i, j \in 1 .. Len(instance.handed) :
         i < j => instance.handed[i] < instance.handed[j]
    /\ instance.max = 0 =>
         \A k \in 1 .. Len(instance.handed) : instance.handed[k] = k

\* a successful addTask returns the value of the counter and advances it by
\* one; no other call of the instance changes the counter
C15_StepCounter ==
    /\ (last'.op = "addTask" /\ last'.outcome = "returned")
         => (last'.ret[1].id = nextId /\ nextId' = nextId + 1)
    /\ (last'.op # "constructor"
          /\ ~(last'.op = "addTask" /\ last'.outcome = "returned"))
         => nextId' = nextId

\* C15: a store just constructed has its id counter one above the greatest
\* id loaded, or 1 for an empty collection; each successful addTask returns
\* the counter's value and advances it by one, so the ids one instance
\* hands out are strictly increasing whatever deleteTask and
\* clearCompletedTasks calls come between (from an empty store the k-th
\* successful addTask gets id k).
C15_IdCounter ==
    /\ [](C15_CounterAtLoad /\ C15_HandedIncreasing)
    /\ [][C15_StepCounter]_vars

\* an instance that loaded a task has handed out two ids, with tasks
\* removed in between
C15_Witness ==
    /\ instance.max >= 1
    /\ Len(instance.handed) = 2
    /\ Len(tasks) <= 1
    /\ last.op \in {"deleteTask", "clearCompletedTasks"}

\* after a mutation the stored value is the whole collection of the
\* instance that performed it
C19_StoredIsPerformers ==
    (last.op \in Mutators /\ last.outcome = "returned")
        => /\ storage.kind = "array"
           /\ loadTasks(storage) = tasks
           /\ storage.items = JSONstringify(tasks)

\* a call in one browsing context leaves the taskManager of the other as it
\* was: nothing tells it of the write
C19_OtherUntouched == last'.op # "switchTab" => other' = other

\* C19: with two store instances loaded from the same storage key and
\* mutating in any interleaving, after each mutation the stored value is the
\* whole in-memory collection of the instance that performed it (last write
\* wins, no conflict detection); a task the other instance added is dropped
\* from storage and the two instances can give the same id to different
\* tasks (the witness).
C19_LastWriteWins ==
    []C19_StoredIsPerformers /\ [][C19_OtherUntouched]_vars

\* this instance has just added a task under an id the other instance gave
\* to a different task, and the other's task is no longer in storage
C19_Witness ==
    /\ last.op = "addTask"
    /\ last.outcome = "returned"
    /\ \E i \in 1 .. Len(other.tasks) :
         /\ other.tasks[i].id = last.ret[1].id
         /\ other.tasks[i].text # last.ret[1].text
         /\ \A j \in 1 .. Len(loadTasks(storage)) :
              loadTasks(storage)[j] # other.tasks[i]

----------------------------------------------------------------------------
(* Properties of the pages *)

\* the task item of task id, if the list shows one
ItemOf(id) == CHOOSE item \in {dom.items[k] : k \in 1 .. Len(dom.items)} :
                  item.id = id

Announces == {"Task completed!", "Task marked as complete!"}

\* C17: after a checkbox change or a click on the toggle-complete button of
\* a rendered task item, the store's task has been toggled exactly once and
\* the item agrees with the store: it has the class `completed` and its
\* text is struck through exactly when the task is completed, the button
\* reads 'Undo Complete' exactly when it is, and the message announces
\* completion exactly when the task has just become completed.
C17_DisplayAgrees ==
    event.kind \in {"change", "click-complete"} =>
        LET index == find(tasks, event.id)
            task == tasks[index + 1]
            item == ItemOf(event.id)
        IN  /\ ~event.threw
            /\ taskFound(index)
            /\ last.op = "toggleTaskCompletion"
            /\ last.outcome = "returned"
            /\ task.completed = ~before[index + 1].completed
            /\ item.completed = task.completed
            /\ (item.textDecoration = "line-through") = task.completed
            /\ (item.completeBtn = "Undo Complete") = task.completed
            /\ (dom.message.text \in Announces) = task.completed

\* a confirmed click on a delete button: the listener has run to its end,
\* the store, the storage and the list no longer hold the task, and a list
\* left without items shows the empty-state placeholder
C18_Confirmed ==
    (event.kind = "click-delete" /\ event.answer) =>
        /\ ~event.threw
        /\ ~HasId(tasks, event.id)
        /\ ~HasId(loadTasks(storage), event.id)
        /\ ~HasId(dom.items, event.id)
        /\ Len(dom.items) = 0 => dom.emptyState

\* a declined click on a delete button changes nothing
C18_Declined ==
    (event'.kind = "click-delete" /\ ~event'.answer) =>
        /\ storage' = storage
        /\ tasks' = tasks
        /\ dom'.items = dom.items
        /\ dom'.emptyState = dom.emptyState

\* C18: when a click on a delete button is confirmed the handler runs to
\* completion, the task is removed from the store and its item from the
\* list, and a list left without items shows the empty-state placeholder;
\* when the confirmation is declined, the store, the storage and the list
\* are unchanged.
C18_DeleteClick == []C18_Confirmed /\ [][C18_Declined]_vars

====
